---- MODULE Spec2Model ----
(***************************************************************************)
(* Model of the storage codec adapters (crates/storage/src/rlp.rs) and of  *)
(* the execution outcome types (crates/vm/levm/src/vm_result.rs).          *)
(*                                                                         *)
(* Four specifications share one set of variables:                         *)
(*   SpecRlp     the generic Rlp<T> adapter, T = Vec<u8>                   *)
(*   SpecSlot    the fixed-width storage slot key / value adapters         *)
(*   SpecResult  ExecutionResult and its accessors                         *)
(*   SpecState   the AccountStatus of the StateAccounts of a state diff    *)
(* A call is recorded in (op, arg, ret): the operation, its argument and   *)
(* what it returned.  A panic is the return value Panic, after which the   *)
(* process takes no further step.                                          *)
(***************************************************************************)
EXTENDS Integers, Sequences, FiniteSets

(* ------------------------------ bounds -------------------------------- *)

\* longest byte string handed to Rlp::from / Rlp::decode
MaxLen == 3

\* longest slice handed to the storage slot decoders
MaxSliceLen == 34

\* longest output payload of an ExecutionResult
MaxPayload == 1

\* most logs carried by a Success
MaxLogs == 1

(* --------------------------- value helpers ---------------------------- *)

None == [tag |-> "None"]

Some(v) == [tag |-> "Some", val |-> v]

Ok(v) == [tag |-> "Ok", val |-> v]

Err(e) == [tag |-> "Err", err |-> e]

\* a call that returned v
Return(v) == [tag |-> "Return", val |-> v]

\* a call that unwound with a panic
Panic == [tag |-> "Panic"]

\* the byte values the inputs are built from: a small byte, the RLP string
\* prefixes for lengths 0, 1 and 2, the long-string prefix and a list prefix
ByteChoices == {5, 128, 129, 130, 184, 192}

BytesUpTo(n) == UNION {[1..k -> ByteChoices] : k \in 0..n}

(* ------------- RLP codec of the entity type T = Vec<u8> --------------- *)

\* big-endian value of a byte string
RECURSIVE BigEndian(_)
BigEndian(s) ==
    IF Len(s) = 0 THEN 0
    ELSE BigEndian(SubSeq(s, 1, Len(s) - 1)) * 256 + s[Len(s)]

\* canonical RLP encoding of a byte string (shorter than 256 bytes)
RLPEncode(x) ==
    IF Len(x) = 1 /\ x[1] < 128 THEN x
    ELSE IF Len(x) < 56 THEN <<128 + Len(x)>> \o x
    ELSE <<184, Len(x)>> \o x

\* canonical RLP decoding of a whole buffer into a byte string
RLPDecode(b) ==
    IF Len(b) = 0 THEN Err("InvalidLength")
    ELSE LET p == b[1] IN
      IF p < 128 THEN
        IF Len(b) = 1 THEN Ok(<<p>>) ELSE Err("MalformedData")
      ELSE IF p <= 183 THEN
        LET n == p - 128 IN
          IF Len(b) < 1 + n THEN Err("InvalidLength")
          ELSE IF Len(b) > 1 + n THEN Err("MalformedData")
          ELSE IF n = 1 /\ b[2] < 128 THEN Err("MalformedData")
          ELSE Ok(SubSeq(b, 2, 1 + n))
      ELSE IF p <= 191 THEN
        LET ll == p - 183 IN
          IF Len(b) < 1 + ll THEN Err("InvalidLength")
          ELSE LET n == BigEndian(SubSeq(b, 2, 1 + ll)) IN
            IF n < 56 THEN Err("MalformedData")
            ELSE IF Len(b) < 1 + ll + n THEN Err("InvalidLength")
            ELSE IF Len(b) > 1 + ll + n THEN Err("MalformedData")
            ELSE Ok(SubSeq(b, 2 + ll, 1 + ll + n))
      ELSE Err("UnexpectedList")

(* --------------------------- Rlp<T> adapter --------------------------- *)

\* struct Rlp<T>(Vec<u8>, PhantomData<T>)
Rlp(buf) == [buf |-> buf]

\* impl From<T> for Rlp<T>
Rlp_from(value) == Rlp(RLPEncode(value))

\* Result::unwrap
unwrap(r) == IF r.tag = "Ok" THEN Return(r.val) ELSE Panic

\* Rlp<T>::to
Rlp_to(self) == unwrap(RLPDecode(self.buf))

\* a decode() that validates the bytes against T's grammar
Rlp_decode_Validating(b) ==
    IF RLPDecode(b).tag = "Ok" THEN Ok(Rlp(b)) ELSE Err("MalformedData")

\* impl Decodable for Rlp<T>
Rlp_decode(b) == Ok(Rlp(b))

\* an encode() that drops the first byte of the buffer
Rlp_encode_Tail(self) ==
    IF Len(self.buf) = 0 THEN self.buf ELSE SubSeq(self.buf, 2, Len(self.buf))

\* impl Encodable for Rlp<T>
Rlp_encode(self) == self.buf

(* ------------------- fixed-width storage slot adapters ---------------- *)

\* the N of [u8; N] in AccountStorageKeyRLP / AccountStorageValueRLP
SlotWidth == 32

\* pub struct AccountStorageKeyRLP(pub [u8; 32])
AccountStorageKeyRLP(word) == [ty |-> "AccountStorageKeyRLP", word |-> word]

\* pub struct AccountStorageValueRLP(pub [u8; 32])
AccountStorageValueRLP(word) == [ty |-> "AccountStorageValueRLP", word |-> word]

\* a conversion that copies the first 32 bytes and panics on a short slice
try_into_Prefix(b) ==
    IF Len(b) >= SlotWidth THEN Return(Ok(SubSeq(b, 1, SlotWidth))) ELSE Panic

\* <[u8; 32] as TryFrom<&[u8]>>::try_from, as called by b.try_into()
try_into(b) ==
    IF Len(b) = SlotWidth THEN Return(Ok(b))
    ELSE Return(Err("TryFromSliceError"))

\* impl Decodable for AccountStorageKeyRLP: Ok(AccountStorageKeyRLP(b.try_into()?))
AccountStorageKeyRLP_decode(b) ==
    LET r == try_into(b) IN
      IF r.tag = "Panic" THEN Panic
      ELSE IF r.val.tag = "Ok" THEN Return(Ok(AccountStorageKeyRLP(r.val.val)))
      ELSE Return(Err(r.val.err))

\* impl Encodable for AccountStorageKeyRLP
AccountStorageKeyRLP_encode(self) == self.word

\* impl Decodable for AccountStorageValueRLP: Ok(AccountStorageValueRLP(b.try_into()?))
AccountStorageValueRLP_decode(b) ==
    LET r == try_into(b) IN
      IF r.tag = "Panic" THEN Panic
      ELSE IF r.val.tag = "Ok" THEN Return(Ok(AccountStorageValueRLP(r.val.val)))
      ELSE Return(Err(r.val.err))

\* impl Encodable for AccountStorageValueRLP
AccountStorageValueRLP_encode(self) == self.word

\* the slices handed to the slot decoders: len bytes seed, seed+step, ...
SliceOf(len, seed, step) == [i \in 1..len |-> (seed + (i - 1) * step) % 256]

SeedChoices == {0, 200}

StepChoices == {1, 90}

Slices ==
    {SliceOf(len, seed, step) :
        len \in 0..MaxSliceLen, seed \in SeedChoices, step \in StepChoices}

(* --------------------------- outcome taxonomy -------------------------- *)

\* pub enum VMError
VMError ==
    {"StackUnderflow", "StackOverflow", "InvalidJump",
     "OpcodeNotAllowedInStaticContext", "OpcodeNotFound", "InvalidBytecode",
     "OutOfGas", "VeryLargeNumber", "OverflowInArithmeticOp", "FatalError",
     "InvalidTransaction"}

\* pub enum SuccessReason
SuccessReason == {"Stop", "Return", "SelfDestruct", "EofReturnContract"}

\* Output::Call(Bytes)
Call(bytes) == [tag |-> "Call", data |-> bytes]

\* Output::Create(Bytes, Option<Address>)
Create(bytes, addr) == [tag |-> "Create", data |-> bytes, address |-> addr]

\* ExecutionResult::Success { .. }
Success(r, gu, gr, l, o, rd) ==
    [tag |-> "Success", reason |-> r, gas_used |-> gu, gas_refunded |-> gr,
     logs |-> l, output |-> o, return_data |-> rd]

\* ExecutionResult::Revert { .. }
Revert(r, gu, o) == [tag |-> "Revert", reason |-> r, gas_used |-> gu, output |-> o]

\* ExecutionResult::Halt { .. }
Halt(r, gu) == [tag |-> "Halt", reason |-> r, gas_used |-> gu]

\* Output::into_data
into_data(self) == self.data

\* Output::data
data(self) == self.data

\* Output::address
address(self) == IF self.tag = "Call" THEN None ELSE self.address

\* ExecutionResult::is_success
is_success(self) == self.tag = "Success"

\* an is_revert() that matches everything but Success
is_revert_NotSuccess(self) == self.tag # "Success"

\* ExecutionResult::is_revert
is_revert(self) == self.tag = "Revert"

\* ExecutionResult::is_halt
is_halt(self) == self.tag = "Halt"

\* an output() without the emptiness filter
output_Unfiltered(self) ==
    IF self.tag = "Success" THEN Some(data(self.output))
    ELSE IF self.tag = "Revert" THEN Some(self.output)
    ELSE None

\* ExecutionResult::output
output(self) ==
    LET o == IF self.tag = "Success" THEN Some(data(self.output))
             ELSE IF self.tag = "Revert" THEN Some(self.output)
             ELSE None
    IN IF o.tag = "None" THEN None
       ELSE IF Len(o.val) = 0 THEN None ELSE Some(o.val)

\* ExecutionResult::into_output
into_output(self) ==
    IF self.tag = "Success" THEN Some(into_data(self.output))
    ELSE IF self.tag = "Revert" THEN Some(self.output)
    ELSE None

\* ExecutionResult::logs
logs(self) == IF self.tag = "Success" THEN self.logs ELSE <<>>

\* ExecutionResult::into_logs
into_logs(self) == IF self.tag = "Success" THEN self.logs ELSE <<>>

\* ExecutionResult::gas_used
gas_used(self) == self.gas_used

\* a gas_refunded() that reports the gas used by a non-success result
gas_refunded_Used(self) ==
    IF self.tag = "Success" THEN self.gas_refunded ELSE self.gas_used

\* ExecutionResult::gas_refunded
gas_refunded(self) == IF self.tag = "Success" THEN self.gas_refunded ELSE 0

\* a reason() that returns a sentinel on Success
reason_Sentinel(self) ==
    IF self.tag \in {"Revert", "Halt"} THEN Return(self.reason)
    ELSE Return("FatalError")

\* ExecutionResult::reason
reason(self) ==
    IF self.tag = "Revert" THEN Return(self.reason)
    ELSE IF self.tag = "Halt" THEN Return(self.reason)
    ELSE Panic

\* the values the interpreter's results are built from
GasChoices == {21000}

RefundChoices == {0, 4800}

PayloadBytes == {0, 255}

Payloads == UNION {[1..k -> PayloadBytes] : k \in 0..MaxPayload}

ReturnDataChoices == {<<>>, <<1>>}

LogChoices == {"log_a", "log_b"}

LogSeqs == UNION {[1..k -> LogChoices] : k \in 0..MaxLogs}

AddressChoices == {"addr_1", "addr_2"}

Outputs ==
    {Call(b) : b \in Payloads}
    \cup {Create(b, a) : b \in Payloads,
                         a \in {None} \cup {Some(x) : x \in AddressChoices}}

ExecutionResults ==
    {Success(r, gu, gr, l, o, rd) :
        r \in SuccessReason, gu \in GasChoices, gr \in RefundChoices,
        l \in LogSeqs, o \in Outputs, rd \in ReturnDataChoices}
    \cup {Revert(r, gu, o) : r \in VMError, gu \in GasChoices, o \in Payloads}
    \cup {Halt(r, gu) : r \in VMError, gu \in GasChoices}

(* --------------------------- state diff model -------------------------- *)

\* pub enum AccountStatus: the discriminants
Loaded == 0

Created == 1

SelfDestructed == 2

Touched == 4

LoadedAsNotExisting == 8

Cold == 16

\* the values a field of type AccountStatus can hold: one variant
AccountStatus ==
    {Loaded, Created, SelfDestructed, Touched, LoadedAsNotExisting, Cold}

\* whether the bit of flag f is set in a status
HasFlag(status, f) == f > 0 /\ (status \div f) % 2 = 1

\* #[derive(Default)] for AccountInfo
DefaultAccountInfo == [balance |-> 0, nonce |-> 0, code_hash |-> 0, code |-> <<>>]

\* pub struct StateAccount
StateAccount(info, storage, status) ==
    [info |-> info, storage |-> storage, status |-> status]

\* #[derive(Default)] for StateAccount: status is the #[default] variant
DefaultStateAccount == StateAccount(DefaultAccountInfo, <<>>, Loaded)

(* ------------------------------- state --------------------------------- *)

VARIABLES
    rlp,        \* Option<Rlp<T>>: the wrapper the caller holds
    stored,     \* Option<Vec<u8>>: the bytes encode() handed over for the store
    prov,       \* history: where the bytes of rlp / stored come from
    slotKey,    \* Option<AccountStorageKeyRLP> the caller holds
    slotValue,  \* Option<AccountStorageValueRLP> the caller holds
    keySrc,     \* history: the slice slotKey was decoded from
    valueSrc,   \* history: the slice slotValue was decoded from
    result,     \* Option<ExecutionResult>: the result the caller holds
    state,      \* HashMap<Address, StateAccount> of a ResultAndState
    marks,      \* history: per address, the flags set on the account so far
    op,         \* the last operation called
    arg,        \* its argument (self for a method)
    ret         \* Return(value) or Panic

rlpVars == <<rlp, stored, prov>>

slotVars == <<slotKey, slotValue, keySrc, valueSrc>>

vmVars == <<result>>

stateVars == <<state, marks>>

callVars == <<op, arg, ret>>

vars == <<rlp, stored, prov, slotKey, slotValue, keySrc, valueSrc, result,
          state, marks, op, arg, ret>>

\* a panic unwinds the process: no operation runs after it
Running == ret # Panic

Init ==
    /\ rlp = None
    /\ stored = None
    /\ prov = [kind |-> "none"]
    /\ slotKey = None
    /\ slotValue = None
    /\ keySrc = None
    /\ valueSrc = None
    /\ result = None
    /\ state = [a \in AddressChoices |-> None]
    /\ marks = [a \in AddressChoices |-> {}]
    /\ op = "init"
    /\ arg = None
    /\ ret = Return(None)

(* --------------------------- Rlp<T> operations ------------------------- *)

\* let w = Rlp::from(x): the caller wraps a domain value for a put
From(x) ==
    /\ Running
    /\ rlp = None /\ stored = None
    /\ rlp' = Some(Rlp_from(x))
    /\ prov' = [kind |-> "from", x |-> x, viaStore |-> FALSE]
    /\ op' = "from" /\ arg' = x /\ ret' = Return(Rlp_from(x))
    /\ UNCHANGED <<stored, slotVars, vmVars, stateVars>>

\* Rlp::decode(b) on bytes a get returned: any bytes at all
Decode(b) ==
    /\ Running
    /\ rlp = None /\ stored = None
    /\ LET r == Rlp_decode(b) IN
         /\ rlp' = IF r.tag = "Ok" THEN Some(r.val) ELSE None
         /\ ret' = Return(r)
    /\ prov' = [kind |-> "decode", b |-> b, viaStore |-> FALSE]
    /\ op' = "decode" /\ arg' = b
    /\ UNCHANGED <<stored, slotVars, vmVars, stateVars>>

\* w.encode(): consumes the wrapper, the bytes go to the store
Encode ==
    /\ Running
    /\ rlp # None
    /\ stored' = Some(Rlp_encode(rlp.val))
    /\ rlp' = None
    /\ op' = "encode" /\ arg' = rlp.val /\ ret' = Return(Rlp_encode(rlp.val))
    /\ UNCHANGED <<prov, slotVars, vmVars, stateVars>>

\* Rlp::decode(b) on the bytes a previous encode() handed to the store
DecodeStored ==
    /\ Running
    /\ rlp = None /\ stored # None
    /\ LET r == Rlp_decode(stored.val) IN
         /\ rlp' = IF r.tag = "Ok" THEN Some(r.val) ELSE None
         /\ ret' = Return(r)
    /\ stored' = None
    /\ prov' = [prov EXCEPT !.viaStore = TRUE]
    /\ op' = "decode" /\ arg' = stored.val
    /\ UNCHANGED <<slotVars, vmVars, stateVars>>

\* w.to(): materializes the domain value, the wrapper stays
To ==
    /\ Running
    /\ rlp # None
    /\ op' = "to" /\ arg' = rlp.val /\ ret' = Rlp_to(rlp.val)
    /\ UNCHANGED <<rlpVars, slotVars, vmVars, stateVars>>

\* the wrapper goes out of scope
Drop ==
    /\ Running
    /\ rlp # None
    /\ rlp' = None
    /\ prov' = [kind |-> "none"]
    /\ op' = "drop" /\ arg' = rlp.val /\ ret' = Return(None)
    /\ UNCHANGED <<stored, slotVars, vmVars, stateVars>>

NextRlp ==
    \/ \E x \in BytesUpTo(MaxLen) : From(x)
    \/ \E b \in BytesUpTo(MaxLen) : Decode(b)
    \/ Encode
    \/ DecodeStored
    \/ To
    \/ Drop

SpecRlp == Init /\ [][NextRlp]_vars

\* C1: Rlp<T>::to on a wrapper whose bytes are not a valid canonical
\* encoding of T returns the decode error to the caller; it does not panic.
C1_ToReturnsDecodeError ==
    (op = "to" /\ RLPDecode(arg.buf).tag = "Err")
        => (ret # Panic /\ ret.val = RLPDecode(arg.buf))

\* C2: a value x wrapped by Rlp::from, passed through the store-facing
\* encode and then the store-facing decode, is materialized by to() as x.
C2_RoundTrip ==
    (op = "to" /\ prov.kind = "from" /\ prov.viaStore) => ret = Return(prov.x)

\* C2 witness: to() returned a two-byte value whose encoding differs from it,
\* after the wrapper went through encode and decode
C2_Witness ==
    /\ op = "to" /\ prov.kind = "from" /\ prov.viaStore
    /\ Len(prov.x) >= 2 /\ arg.buf # prov.x
    /\ ret = Return(prov.x)

\* C9: the store-facing decode succeeds on every byte sequence and wraps
\* exactly those bytes; encode returns the bytes decode received, and after
\* Rlp::from(x) it returns exactly the canonical encoding of x.
C9_BytesPreserved ==
    /\ op = "decode" => ret = Return(Ok(Rlp(arg)))
    /\ (op = "encode" /\ prov.kind = "decode") => ret = Return(prov.b)
    /\ (op = "encode" /\ prov.kind = "from") => ret = Return(RLPEncode(prov.x))

\* C9 witness: encode returned malformed bytes exactly as decode received them
C9_Witness ==
    /\ op = "encode" /\ prov.kind = "decode"
    /\ RLPDecode(prov.b).tag = "Err" /\ Len(prov.b) >= 2
    /\ ret = Return(prov.b)

(* ----------------------- storage slot operations ----------------------- *)

\* AccountStorageKeyRLP::decode(b)
KeyDecode(b) ==
    /\ Running
    /\ LET r == AccountStorageKeyRLP_decode(b) IN
         /\ ret' = r
         /\ IF r # Panic /\ r.val.tag = "Ok"
              THEN slotKey' = Some(r.val.val) /\ keySrc' = Some(b)
              ELSE UNCHANGED <<slotKey, keySrc>>
    /\ op' = "key_decode" /\ arg' = b
    /\ UNCHANGED <<rlpVars, slotValue, valueSrc, vmVars, stateVars>>

\* key.encode(): consumes the wrapper
KeyEncode ==
    /\ Running
    /\ slotKey # None
    /\ ret' = Return(AccountStorageKeyRLP_encode(slotKey.val))
    /\ op' = "key_encode" /\ arg' = keySrc.val
    /\ slotKey' = None /\ keySrc' = None
    /\ UNCHANGED <<rlpVars, slotValue, valueSrc, vmVars, stateVars>>

\* AccountStorageValueRLP::decode(b)
ValueDecode(b) ==
    /\ Running
    /\ LET r == AccountStorageValueRLP_decode(b) IN
         /\ ret' = r
         /\ IF r # Panic /\ r.val.tag = "Ok"
              THEN slotValue' = Some(r.val.val) /\ valueSrc' = Some(b)
              ELSE UNCHANGED <<slotValue, valueSrc>>
    /\ op' = "value_decode" /\ arg' = b
    /\ UNCHANGED <<rlpVars, slotKey, keySrc, vmVars, stateVars>>

\* value.encode(): consumes the wrapper
ValueEncode ==
    /\ Running
    /\ slotValue # None
    /\ ret' = Return(AccountStorageValueRLP_encode(slotValue.val))
    /\ op' = "value_encode" /\ arg' = valueSrc.val
    /\ slotValue' = None /\ valueSrc' = None
    /\ UNCHANGED <<rlpVars, slotKey, keySrc, vmVars, stateVars>>

NextSlot ==
    \/ \E b \in Slices : KeyDecode(b)
    \/ KeyEncode
    \/ \E b \in Slices : ValueDecode(b)
    \/ ValueEncode

SpecSlot == Init /\ [][NextSlot]_vars

\* C3: the slot key / value decoders return an error, and never panic, on a
\* slice whose length is not 32; on a slice of length 32 they succeed, and
\* the subsequent encode returns exactly those 32 bytes in the same order.
C3_FixedWidth ==
    /\ (op \in {"key_decode", "value_decode"} /\ Len(arg) # SlotWidth)
          => (ret # Panic /\ ret.val.tag = "Err")
    /\ (op \in {"key_decode", "value_decode"} /\ Len(arg) = SlotWidth)
          => (ret # Panic /\ ret.val.tag = "Ok" /\ ret.val.val.word = arg)
    /\ op \in {"key_encode", "value_encode"} => ret = Return(arg)

\* C3 witness: a 32-byte slice of distinct bytes came back from encode
C3_Witness ==
    /\ op \in {"key_encode", "value_encode"}
    /\ Len(arg) = SlotWidth /\ arg[1] # arg[2]
    /\ ret = Return(arg)

(* --------------------- ExecutionResult operations ---------------------- *)

\* the interpreter hands the caller the result of one execution; the caller
\* holds one result at a time
Execute(r) ==
    /\ Running
    /\ result = None
    /\ result' = Some(r)
    /\ op' = "execute" /\ arg' = r /\ ret' = Return(r)
    /\ UNCHANGED <<rlpVars, slotVars, stateVars>>

\* result.is_success()
IsSuccess ==
    /\ Running
    /\ result # None
    /\ op' = "is_success" /\ arg' = result.val /\ ret' = Return(is_success(result.val))
    /\ UNCHANGED <<rlpVars, slotVars, vmVars, stateVars>>

\* result.is_revert()
IsRevert ==
    /\ Running
    /\ result # None
    /\ op' = "is_revert" /\ arg' = result.val /\ ret' = Return(is_revert(result.val))
    /\ UNCHANGED <<rlpVars, slotVars, vmVars, stateVars>>

\* result.is_halt()
IsHalt ==
    /\ Running
    /\ result # None
    /\ op' = "is_halt" /\ arg' = result.val /\ ret' = Return(is_halt(result.val))
    /\ UNCHANGED <<rlpVars, slotVars, vmVars, stateVars>>

\* result.output()
OutputOf ==
    /\ Running
    /\ result # None
    /\ op' = "output" /\ arg' = result.val /\ ret' = Return(output(result.val))
    /\ UNCHANGED <<rlpVars, slotVars, vmVars, stateVars>>

\* result.into_output(): consumes the result
IntoOutput ==
    /\ Running
    /\ result # None
    /\ op' = "into_output" /\ arg' = result.val /\ ret' = Return(into_output(result.val))
    /\ result' = None
    /\ UNCHANGED <<rlpVars, slotVars, stateVars>>

\* result.logs()
Logs ==
    /\ Running
    /\ result # None
    /\ op' = "logs" /\ arg' = result.val /\ ret' = Return(logs(result.val))
    /\ UNCHANGED <<rlpVars, slotVars, vmVars, stateVars>>

\* result.into_logs(): consumes the result
IntoLogs ==
    /\ Running
    /\ result # None
    /\ op' = "into_logs" /\ arg' = result.val /\ ret' = Return(into_logs(result.val))
    /\ result' = None
    /\ UNCHANGED <<rlpVars, slotVars, stateVars>>

\* result.gas_used()
GasUsed ==
    /\ Running
    /\ result # None
    /\ op' = "gas_used" /\ arg' = result.val /\ ret' = Return(gas_used(result.val))
    /\ UNCHANGED <<rlpVars, slotVars, vmVars, stateVars>>

\* result.gas_refunded()
GasRefunded ==
    /\ Running
    /\ result # None
    /\ op' = "gas_refunded" /\ arg' = result.val /\ ret' = Return(gas_refunded(result.val))
    /\ UNCHANGED <<rlpVars, slotVars, vmVars, stateVars>>

\* result.reason()
Reason ==
    /\ Running
    /\ result # None
    /\ op' = "reason" /\ arg' = result.val /\ ret' = reason(result.val)
    /\ UNCHANGED <<rlpVars, slotVars, vmVars, stateVars>>

NextResult ==
    \/ \E r \in ExecutionResults : Execute(r)
    \/ IsSuccess
    \/ IsRevert
    \/ IsHalt
    \/ OutputOf
    \/ IntoOutput
    \/ Logs
    \/ IntoLogs
    \/ GasUsed
    \/ GasRefunded
    \/ Reason

SpecResult == Init /\ [][NextResult]_vars

\* exactly one of three booleans
ExactlyOne(a, b, c) ==
    \/ a /\ ~b /\ ~c
    \/ ~a /\ b /\ ~c
    \/ ~a /\ ~b /\ c

\* C4: for every ExecutionResult exactly one of is_success, is_revert and
\* is_halt is true, and it is the one of the active variant.
C4_MutuallyExclusive ==
    op \in {"is_success", "is_revert", "is_halt"} =>
        /\ ExactlyOne(is_success(arg), is_revert(arg), is_halt(arg))
        /\ op = "is_success" => ret = Return(arg.tag = "Success")
        /\ op = "is_revert" => ret = Return(arg.tag = "Revert")
        /\ op = "is_halt" => ret = Return(arg.tag = "Halt")

\* C4 witness: is_revert answered false on a Halt
C4_Witness == op = "is_revert" /\ arg.tag = "Halt" /\ ret = Return(FALSE)

\* the byte payload a Success or a Revert carries
PayloadOf(r) == IF r.tag = "Success" THEN r.output.data ELSE r.output

\* C5: output() is None for every Halt and for every Success or Revert with
\* an empty payload, and otherwise Some of exactly the carried payload.
C5_OutputPresence ==
    op = "output" =>
        /\ arg.tag = "Halt" => ret = Return(None)
        /\ (arg.tag # "Halt" /\ PayloadOf(arg) = <<>>) => ret = Return(None)
        /\ (arg.tag # "Halt" /\ PayloadOf(arg) # <<>>)
              => ret = Return(Some(PayloadOf(arg)))

\* C5 witness: output() was None on a Success created with an empty payload
C5_Witness ==
    /\ op = "output" /\ arg.tag = "Success" /\ arg.output.tag = "Create"
    /\ arg.output.data = <<>> /\ ret = Return(None)

\* C6: into_output() agrees with output() on every result: Some(b) exactly
\* when output() is Some(b), None otherwise.
C6_IntoOutputAgrees == op = "into_output" => ret = Return(output(arg))

\* C7: on every Revert and Halt, logs() and into_logs() are empty and
\* gas_refunded() is 0; on every Success they are the carried values.
C7_NonSuccessEmpty ==
    /\ op \in {"logs", "into_logs"} =>
          /\ ret # Panic
          /\ arg.tag \in {"Revert", "Halt"} => ret.val = <<>>
          /\ arg.tag = "Success" => ret.val = arg.logs
    /\ op = "gas_refunded" =>
          /\ ret # Panic
          /\ arg.tag \in {"Revert", "Halt"} => ret.val = 0
          /\ arg.tag = "Success" => ret.val = arg.gas_refunded

\* C7 witness: gas_refunded() was 0 on a Revert that used gas
C7_Witness ==
    op = "gas_refunded" /\ arg.tag = "Revert" /\ arg.gas_used > 0 /\ ret = Return(0)

\* C8: reason() returns the carried reason of every Revert and Halt, and
\* panics on every Success.
C8_Reason ==
    op = "reason" =>
        /\ arg.tag \in {"Revert", "Halt"} => ret = Return(arg.reason)
        /\ arg.tag = "Success" => ret = Panic

\* C8 witness: reason() panicked on a Success
C8_Witness == op = "reason" /\ arg.tag = "Success" /\ ret = Panic

(* ------------------------ state diff operations ------------------------ *)

\* an address read during execution enters the map with the default account
Load(a) ==
    /\ Running
    /\ state[a] = None
    /\ state' = [state EXCEPT ![a] = Some(DefaultStateAccount)]
    /\ marks' = [marks EXCEPT ![a] = {}]
    /\ op' = "load" /\ arg' = a /\ ret' = Return(None)
    /\ UNCHANGED <<rlpVars, slotVars, vmVars>>

\* account.status = f: the field holds one AccountStatus variant, so setting
\* a flag replaces the variant held before
SetStatus(a, f) ==
    /\ Running
    /\ state[a] # None
    /\ state' = [state EXCEPT ![a] = Some([state[a].val EXCEPT !.status = f])]
    /\ marks' = [marks EXCEPT ![a] = IF f = Loaded THEN {} ELSE marks[a] \cup {f}]
    /\ op' = "set_status" /\ arg' = <<a, f>> /\ ret' = Return(None)
    /\ UNCHANGED <<rlpVars, slotVars, vmVars>>

NextState ==
    \/ \E a \in AddressChoices : Load(a)
    \/ \E a \in AddressChoices, f \in AccountStatus : SetStatus(a, f)

SpecState == Init /\ [][NextState]_vars

\* C10: AccountStatus flags are composable: every flag set on an account
\* since it was loaded is held by its status, each in its own bit, so a
\* status can hold two flags (Created and Touched) at once.
C10_FlagsComposable ==
    \A a \in AddressChoices :
        state[a] # None => \A f \in marks[a] : HasFlag(state[a].val.status, f)

====
